---- MODULE Spec2Model ----
(***************************************************************************)
(* Model of entity_extraction.py: the startup section, the retry loop of   *)
(* extract_entities and the batch driver.                                  *)
(*                                                                         *)
(* Representation.  A Python str is a sequence of lexemes (TLA+ strings).  *)
(* Completion texts are sequences of JSON lexemes (" " is a whitespace     *)
(* character, "~" a character that starts no JSON value); failure          *)
(* messages are sequences of single characters, so that the substring      *)
(* tests "429" in error_msg / "401" in error_msg are real searches.        *)
(* A Python value is a tagged sequence: <<"str", ...>>, <<"int", n>>,      *)
(* <<"None">>, <<"list", ...>>, <<"dict", ...>>.  A dict used as a record  *)
(* is a function from its keys to values.                                  *)
(***************************************************************************)
EXTENDS Integers, Sequences, FiniteSets, TLC

\* ------------------------------------------------------------------ bounds
MaxRecords == 2

\* longest description / care text of the prompt runs
MaxPromptLen == 2

\* ------------------------------------------------------- program constants
\* a loop that makes one attempt more
MaxAttempts_Four == 3 + 1

MaxAttempts == 3
RateLimitDelay == 5

\* --------------------------------------------------------- Python values
Str(s) == <<"str">> \o s

WS == " "

\* lexemes that are JSON string literals (the lexeme is the literal's content)
StrLits == {"description", "error", "raw_output", "Product Type", "Bra"}

NumLits == {"7"}

\* str.strip(): drop leading and trailing whitespace, keep the inside
RECURSIVE LStrip(_)
LStrip(s) ==
    IF s # <<>> /\ Head(s) = WS THEN LStrip(Tail(s)) ELSE s

RECURSIVE RStrip(_)
RStrip(s) ==
    IF s # <<>> /\ s[Len(s)] = WS THEN RStrip(SubSeq(s, 1, Len(s) - 1)) ELSE s

\* the text used as returned, without strip()
Strip_Omitted(s) == s

Strip(s) == RStrip(LStrip(s))

\* "sub in s" for Python strings
Contains(sub, s) ==
    \E i \in 1..(Len(s) - Len(sub) + 1) : SubSeq(s, i, i + Len(sub) - 1) = sub

\* ------------------------------------------------------------ json.loads
RECURSIVE SkipWs(_, _)
SkipWs(t, i) ==
    IF i <= Len(t) /\ t[i] = WS THEN SkipWs(t, i + 1) ELSE i

ParseFail == [ok |-> FALSE, next |-> 0, val |-> <<>>, pairs |-> <<>>]

RECURSIVE ParseValue(_, _)
RECURSIVE ParseElements(_, _, _)
RECURSIVE ParseMembers(_, _, _, _)

\* a value starting exactly at position i
ParseValue(t, i) ==
    IF i > Len(t) THEN ParseFail
    ELSE IF t[i] \in StrLits
        THEN [ok |-> TRUE, next |-> i + 1, val |-> Str(<<t[i]>>), pairs |-> <<>>]
    ELSE IF t[i] \in NumLits
        THEN [ok |-> TRUE, next |-> i + 1, val |-> <<"int", t[i]>>, pairs |-> <<>>]
    ELSE IF t[i] = "null"
        THEN [ok |-> TRUE, next |-> i + 1, val |-> <<"None">>, pairs |-> <<>>]
    ELSE IF t[i] = "["
        THEN LET j == SkipWs(t, i + 1) IN
             IF j <= Len(t) /\ t[j] = "]"
                 THEN [ok |-> TRUE, next |-> j + 1, val |-> <<"list">>, pairs |-> <<>>]
                 ELSE ParseElements(t, j, <<"list">>)
    ELSE IF t[i] = "{"
        THEN LET j == SkipWs(t, i + 1) IN
             IF j <= Len(t) /\ t[j] = "}"
                 THEN [ok |-> TRUE, next |-> j + 1, val |-> <<"dict">>, pairs |-> <<>>]
                 ELSE ParseMembers(t, j, <<"dict">>, <<>>)
    ELSE ParseFail

\* the elements of an array, the next one starting at i; acc is the value so far
ParseElements(t, i, acc) ==
    LET v == ParseValue(t, i)
        j == SkipWs(t, v.next)
    IN  IF ~v.ok \/ j > Len(t) THEN ParseFail
        ELSE IF t[j] = ","
            THEN ParseElements(t, SkipWs(t, j + 1), acc \o v.val \o <<",">>)
        ELSE IF t[j] = "]"
            THEN [ok |-> TRUE, next |-> j + 1, val |-> acc \o v.val, pairs |-> <<>>]
        ELSE ParseFail

\* the members of an object, the next key at i; ps is the key/value pairs so far
ParseMembers(t, i, acc, ps) ==
    IF i > Len(t) \/ t[i] \notin StrLits THEN ParseFail
    ELSE LET c == SkipWs(t, i + 1) IN
         IF c > Len(t) \/ t[c] # ":" THEN ParseFail
         ELSE LET v == ParseValue(t, SkipWs(t, c + 1))
                  j == SkipWs(t, v.next)
                  ps2 == Append(ps, <<t[i], v.val>>)
                  acc2 == acc \o <<t[i], ":">> \o v.val
              IN  IF ~v.ok \/ j > Len(t) THEN ParseFail
                  ELSE IF t[j] = ","
                      THEN ParseMembers(t, SkipWs(t, j + 1), acc2 \o <<",">>, ps2)
                  ELSE IF t[j] = "}"
                      THEN [ok |-> TRUE, next |-> j + 1, val |-> acc2, pairs |-> ps2]
                  ELSE ParseFail

\* the dict a parsed object denotes: a repeated key keeps its last value
PairsToDict(ps) ==
    LET keys == {ps[n][1] : n \in 1..Len(ps)}
        last(k) == CHOOSE n \in 1..Len(ps) :
                      /\ ps[n][1] = k
                      /\ \A m \in 1..Len(ps) : ps[m][1] = k => m <= n
    IN  [k \in keys |-> ps[last(k)][2]]

\* json.loads(t): ok = FALSE is JSONDecodeError; otherwise type is the Python
\* type name of the value and dict is the mapping when type = "dict"
json_loads(t) ==
    LET v == ParseValue(t, SkipWs(t, 1)) IN
    IF v.ok /\ SkipWs(t, v.next) = Len(t) + 1
        THEN [ok |-> TRUE,
              type |-> IF v.val[1] = "None" THEN "NoneType" ELSE v.val[1],
              dict |-> PairsToDict(v.pairs)]
        ELSE [ok |-> FALSE, type |-> "", dict |-> <<>>]

\* ------------------------------------------------------------- the dicts
\* {**a, **b}: the keys of both, b's value where both have the key
Merge(a, b) ==
    [k \in (DOMAIN a) \cup (DOMAIN b) |-> IF k \in DOMAIN b THEN b[k] ELSE a[k]]

\* the added field written together with the other added field
WithField_Both(entry, key, value) ==
    [k \in (DOMAIN entry) \cup {"raw_output", "error"} |->
        IF k \in {"raw_output", "error"} THEN value ELSE entry[k]]

\* {**entry, key: value}
WithField(entry, key, value) ==
    [k \in (DOMAIN entry) \cup {key} |-> IF k = key THEN value ELSE entry[k]]

\* ------------------------------------------------------ inputs of the model
\* records of hm_input.json: one without care_instructions, one that already
\* carries fields named like the ones the loop adds
Entries ==
    { [description |-> Str(<<"cotton">>), id |-> <<"int", "1">>],
      [description |-> Str(<<"lace">>), care_instructions |-> Str(<<"wash">>),
       error |-> Str(<<"old">>), raw_output |-> Str(<<"old">>)] }

RECURSIVE SeqsUpTo(_, _)
SeqsUpTo(S, n) ==
    IF n = 0 THEN {<<>>}
    ELSE LET shorter == SeqsUpTo(S, n - 1) IN
         shorter \cup {Append(q, e) : q \in shorter, e \in S}

\* texts the completion service may return as message.content
Texts ==
    { <<"{", "Product Type", ":", "Bra", "}">>,
      <<" ", "{", "description", ":", " ", "Bra", "}", " ">>,
      <<"{", "}">>,
      <<"{", "error", ":", "Bra", ",", "Product Type", ":", "null", "}">>,
      <<"[", "Bra", "]">>,
      <<"null">>,
      <<" ", "~", " ", "~", " ">>,
      <<" ">>,
      <<"{", "Product Type", ":">>,
      <<"{", "}", "~">> }

\* str(e) of the exceptions client.chat.complete may raise
Messages ==
    { <<"4", "2", "9">>,
      <<"4", "0", "1">>,
      <<"4", "0", "1", " ", "4", "2", "9">>,
      <<"5", "0", "0">>,
      <<"4", "0", "2", "9">> }

\* ------------------------------------------------------------------ state
VARIABLES
    pc,           \* "start", "load", "next", "attempt", "done", "crashed"
    env_has_key,  \* MISTRAL_API_KEY is set in the environment
    hm_input,     \* content of hm_input.json
    input_data,   \* the loaded list
    output_data,  \* the list being built by the comprehension
    hm_output,    \* hm_output2.json: whether it was written, and its content
    attempt,      \* loop variable of the current extract_entities call
    hist,         \* outcomes of the invocations made for the current record
    sleeps,       \* time.sleep arguments of the current call
    log,          \* diagnostic lines of the current call
    prompt,       \* local variable prompt of the current call
    requests      \* arguments of the client.chat.complete calls of the current call

vars == <<pc, env_has_key, hm_input, input_data, output_data, hm_output,
          attempt, hist, sleeps, log, prompt, requests>>

NoFile == [written |-> FALSE, data |-> <<>>]

Init ==
    /\ pc = "start"
    /\ env_has_key \in BOOLEAN
    /\ hm_input \in SeqsUpTo(Entries, MaxRecords)
    /\ input_data = <<>>
    /\ output_data = <<>>
    /\ hm_output = NoFile
    /\ attempt = 0
    /\ hist = <<>>
    /\ sleeps = <<>>
    /\ log = <<>>
    /\ prompt = <<>>
    /\ requests = <<>>

\* the record the comprehension is at
entry == input_data[Len(output_data) + 1]

\* ---------------------------------------------------------------- startup
\* load_dotenv, os.getenv, Mistral(api_key=api_key): the script never looks at
\* api_key; with the key absent the constructor receives None and whether it
\* raises is left to the client library
Startup ==
    /\ pc = "start"
    /\ \E raises \in (IF env_has_key THEN {FALSE} ELSE BOOLEAN) :
          pc' = IF raises THEN "crashed" ELSE "load"
    /\ UNCHANGED <<env_has_key, hm_input, input_data, output_data, hm_output,
                   attempt, hist, sleeps, log, prompt, requests>>

LoadInput ==
    /\ pc = "load"
    /\ input_data' = hm_input
    /\ pc' = "next"
    /\ UNCHANGED <<env_has_key, hm_input, output_data, hm_output,
                   attempt, hist, sleeps, log, prompt, requests>>

\* ----------------------------------------------------------- build_prompt
\* the delimiter around the two texts
Delim == "\"\"\""

\* the lines of the template before the description (line breaks and empty
\* lines are not lexemes)
PromptHead ==
    << "You are an expert product data annotator. Extract the following attributes from the product description and care instructions. Return them as a valid JSON object with these keys:",
       "Product Attributes:",
       "- Product Type",
       "- Support/Wiring",
       "- Closures",
       "- Neckline design",
       "- Waist Style",
       "- Design Features",
       "- Intended Use / Function",
       "- Length",
       "Care Attributes:",
       "- Washing Instructions",
       "- Drying Method",
       "- Bleach Instructions",
       "- Dry Cleaning",
       "- Ironing Instructions",
       "Only include values that are mentioned or strongly implied. If something is missing, use \"Not Available\".",
       "Product Description:" >>

PromptTail == <<"Only return valid JSON. No explanation.">>

\* the text an f-string puts in for a value: a str as it is, an int as its
\* digits, None as "None"
Format(v) ==
    IF v[1] = "None" THEN <<"None">> ELSE Tail(v)

\* the f-string of build_prompt: the texts go in as they are, nothing escaped
build_prompt(description, care_instructions) ==
    PromptHead \o <<Delim>> \o Format(description) \o <<Delim>>
    \o <<"Care Instructions:", Delim>> \o Format(care_instructions) \o <<Delim>>
    \o PromptTail

\* a missing key read without the default
Get_NoDefault(d, key, default) ==
    IF key \in DOMAIN d THEN d[key] ELSE <<"None">>

\* d.get(key, default)
Get(d, key, default) ==
    IF key \in DOMAIN d THEN d[key] ELSE default

\* a request whose message is not a user message
Request_System(content) ==
    [model |-> "open-mistral-7b",
     messages |-> <<[role |-> "system", content |-> content]>>,
     temperature |-> 0]

\* the keyword arguments of client.chat.complete
Request(content) ==
    [model |-> "open-mistral-7b",
     messages |-> <<[role |-> "user", content |-> content]>>,
     temperature |-> 0]

\* ------------------------------------------------------- extract_entities
\* a call that goes on with the loop variable of the call before
EnterExtract_KeepAttempt ==
    /\ pc = "next"
    /\ Len(output_data) < Len(input_data)
    /\ prompt' = build_prompt(Get(entry, "description", Str(<<>>)),
                              Get(entry, "care_instructions", Str(<<>>)))
    /\ hist' = <<>>
    /\ sleeps' = <<>>
    /\ log' = <<>>
    /\ requests' = <<>>
    /\ pc' = "attempt"
    /\ UNCHANGED <<env_has_key, hm_input, input_data, output_data, hm_output,
                   attempt>>

\* the comprehension calls extract_entities on the next record: the prompt is
\* built and the loop starts
EnterExtract ==
    /\ pc = "next"
    /\ Len(output_data) < Len(input_data)
    /\ prompt' = build_prompt(Get(entry, "description", Str(<<>>)),
                              Get(entry, "care_instructions", Str(<<>>)))
    /\ attempt' = 0
    /\ hist' = <<>>
    /\ sleeps' = <<>>
    /\ log' = <<>>
    /\ requests' = <<>>
    /\ pc' = "attempt"
    /\ UNCHANGED <<env_has_key, hm_input, input_data, output_data, hm_output>>

UnauthorizedError == Str(<<"Unauthorized. Check your API key.">>)

\* the error field without the detail
ApiError_NoDetail(error_msg) == Str(<<"API error: ">>)

ApiError(error_msg) == Str(<<"API error: ">> \o error_msg)

AllAttemptsFailed == Str(<<"All attempts failed">>)

\* the results collected in reverse order
Return_Prepend(rec) ==
    /\ output_data' = <<rec>> \o output_data
    /\ pc' = "next"
    /\ UNCHANGED <<attempt, input_data>>

\* an invalid credential ends the run instead of the record
Return_Abort(rec) ==
    /\ output_data' = Append(output_data, rec)
    /\ pc' = IF "error" \in DOMAIN rec /\ rec["error"] = UnauthorizedError
                THEN "crashed" ELSE "next"
    /\ UNCHANGED <<attempt, input_data>>

\* the result written into the input record, which is returned
Return_Update(rec) ==
    /\ input_data' = [input_data EXCEPT ![Len(output_data) + 1] = rec]
    /\ output_data' = Append(output_data, rec)
    /\ pc' = "next"
    /\ UNCHANGED attempt

\* the result carrying a mark of the attempts made before
Return_Retried(rec) ==
    /\ output_data' = Append(output_data,
                             IF attempt > 0
                                THEN [k \in (DOMAIN rec) \cup {"retried"} |->
                                        IF k = "retried" THEN <<"int", "1">> ELSE rec[k]]
                                ELSE rec)
    /\ pc' = "next"
    /\ UNCHANGED <<attempt, input_data>>

\* a return statement of extract_entities: {**entry, ...} is a new dict, entry
\* is left as it was; the comprehension appends the result
Return(rec) ==
    /\ output_data' = Append(output_data, rec)
    /\ pc' = "next"
    /\ UNCHANGED <<attempt, input_data>>

\* every failure taken for a rate limit
IsRateLimited_Any(error_msg) == TRUE

IsRateLimited(error_msg) == Contains(<<"4", "2", "9">>, error_msg)

\* the test written for another status code
IsUnauthorized_403(error_msg) == Contains(<<"4", "0", "3">>, error_msg)

IsUnauthorized(error_msg) == Contains(<<"4", "0", "1">>, error_msg)

\* a delay that doubles with each attempt
SleepArg_Backoff(att) == RateLimitDelay * (2 ^ att)

\* the argument of time.sleep in attempt att (0-based)
SleepArg(att) == RateLimitDelay

\* the except clause without the sleep when no attempt is left
HandleException_NoLastSleep(error_msg) ==
    /\ log' = Append(log, <<attempt + 1, error_msg>>)
    /\ IF IsRateLimited(error_msg)
          THEN IF attempt + 1 < MaxAttempts
                  THEN /\ sleeps' = Append(sleeps, SleepArg(attempt))
                       /\ attempt' = attempt + 1
                       /\ UNCHANGED <<pc, output_data, input_data>>
                  ELSE /\ Return(WithField(entry, "error", AllAttemptsFailed))
                       /\ UNCHANGED sleeps
       ELSE IF IsUnauthorized(error_msg)
          THEN /\ Return(WithField(entry, "error", UnauthorizedError))
               /\ UNCHANGED sleeps
       ELSE /\ Return(WithField(entry, "error", ApiError(error_msg)))
            /\ UNCHANGED sleeps

\* the except clause, and the end of the loop when the last attempt was
\* rate limited
HandleException(error_msg) ==
    /\ log' = Append(log, <<attempt + 1, error_msg>>)
    /\ IF IsRateLimited(error_msg)
          THEN /\ sleeps' = Append(sleeps, SleepArg(attempt))
               /\ IF attempt + 1 < MaxAttempts
                     THEN /\ attempt' = attempt + 1
                          /\ UNCHANGED <<pc, output_data, input_data>>
                     ELSE Return(WithField(entry, "error", AllAttemptsFailed))
       ELSE IF IsUnauthorized(error_msg)
          THEN /\ Return(WithField(entry, "error", UnauthorizedError))
               /\ UNCHANGED sleeps
       ELSE /\ Return(WithField(entry, "error", ApiError(error_msg)))
            /\ UNCHANGED sleeps

\* str(e) of the TypeError that {**entry, **extracted} raises when extracted is
\* not a mapping (one lexeme; it has no digit in it)
NotAMapping(type) == <<"'" \o type \o "' object is not a mapping">>

\* client.chat.complete returns text
AttemptReturns(text) ==
    /\ pc = "attempt"
    /\ attempt < MaxAttempts
    /\ requests' = Append(requests, Request(prompt))
    /\ hist' = Append(hist, [kind |-> "text", body |-> text])
    /\ LET output == Strip(text)
           extracted == json_loads(output)
       IN  IF ~extracted.ok
              THEN /\ Return(WithField(entry, "raw_output", Str(output)))
                   /\ UNCHANGED <<sleeps, log>>
           ELSE IF extracted.type = "dict"
              THEN /\ Return(Merge(entry, extracted.dict))
                   /\ UNCHANGED <<sleeps, log>>
           ELSE HandleException(NotAMapping(extracted.type))
    /\ UNCHANGED <<env_has_key, hm_input, hm_output, prompt>>

\* client.chat.complete raises an exception whose str is error_msg
AttemptFails(error_msg) ==
    /\ pc = "attempt"
    /\ attempt < MaxAttempts
    /\ requests' = Append(requests, Request(prompt))
    /\ hist' = Append(hist, [kind |-> "fail", body |-> error_msg])
    /\ HandleException(error_msg)
    /\ UNCHANGED <<env_has_key, hm_input, hm_output, prompt>>

\* ------------------------------------------------------------ the output
\* the comprehension is over: json.dump of output_data
WriteOutput ==
    /\ pc = "next"
    /\ Len(output_data) = Len(input_data)
    /\ hm_output' = [written |-> TRUE, data |-> output_data]
    /\ pc' = "done"
    /\ UNCHANGED <<env_has_key, hm_input, input_data, output_data,
                   attempt, hist, sleeps, log, prompt, requests>>

Next ==
    \/ Startup
    \/ LoadInput
    \/ EnterExtract
    \/ \E text \in Texts : AttemptReturns(text)
    \/ \E error_msg \in Messages : AttemptFails(error_msg)
    \/ WriteOutput

Spec == Init /\ [][Next]_vars

\* the script runs to its end: no statement waits forever
FairSpec == Spec /\ WF_vars(Next)

\* ------------------------------------------ the prompt on its own: a run of
\* one record up to the first attempt, over more texts than the batch uses
PromptChars == {"a", " ", Delim}

PromptTexts == SeqsUpTo(PromptChars, MaxPromptLen)

\* a record whose field is there or not
FieldOrNone(key, values) ==
    {[k \in {} |-> <<>>]} \cup {[k \in {key} |-> Str(v)] : v \in values}

PromptEntries ==
    {Merge(Merge([id |-> <<"int", "1">>], d), c) :
        d \in FieldOrNone("description", PromptTexts),
        c \in FieldOrNone("care_instructions", PromptTexts)}

PromptInit ==
    /\ pc = "start"
    /\ env_has_key = TRUE
    /\ hm_input \in {<<e>> : e \in PromptEntries}
    /\ input_data = <<>>
    /\ output_data = <<>>
    /\ hm_output = NoFile
    /\ attempt = 0
    /\ hist = <<>>
    /\ sleeps = <<>>
    /\ log = <<>>
    /\ prompt = <<>>
    /\ requests = <<>>

PromptNext ==
    \/ Startup
    \/ LoadInput
    \/ EnterExtract

PromptSpec == PromptInit /\ [][PromptNext]_vars

\* ============================================================ properties
\* extract_entities has returned for record Len(output_data): hist holds the
\* outcomes of that record
Returned == pc \in {"next", "done"} /\ hist # <<>>

lastEntry == input_data[Len(output_data)]

lastOut == output_data[Len(output_data)]

Has429(m) == \E i \in 1..(Len(m) - 2) : m[i] = "4" /\ m[i + 1] = "2" /\ m[i + 2] = "9"

Has401(m) == \E i \in 1..(Len(m) - 2) : m[i] = "4" /\ m[i + 1] = "0" /\ m[i + 2] = "1"

\* out is rec with field f set to value v and nothing else added or changed
IsPlus(out, rec, f, v) ==
    /\ DOMAIN out = (DOMAIN rec) \cup {f}
    /\ out[f] = v
    /\ \A k \in (DOMAIN rec) \ {f} : out[k] = rec[k]

\* the fields of record i that the output adds to the input or changes in it
Changed(i) ==
    {k \in DOMAIN output_data[i] :
        k \notin DOMAIN input_data[i] \/ output_data[i][k] # input_data[i][k]}

\* C1: every field of the input record is present in the corresponding output
\* record with its original value
C1_InputFieldsUnchanged ==
    \A i \in 1..Len(output_data) :
        \A k \in DOMAIN input_data[i] :
            k \in DOMAIN output_data[i] /\ output_data[i][k] = input_data[i][k]

\* C2 as stated: on top of the input fields every output record has exactly
\* one of: extracted attributes, a raw_output field, an error field
C2_ExactlyOneShapeInFields ==
    \A i \in 1..Len(output_data) :
        LET attrs == Changed(i) \ {"raw_output", "error"} # {}
            raw == "raw_output" \in Changed(i)
            err == "error" \in Changed(i)
        IN  \/ attrs /\ ~raw /\ ~err
            \/ ~attrs /\ raw /\ ~err
            \/ ~attrs /\ ~raw /\ err

\* C2 amended: a returned record is either the parsed JSON object merged over
\* the input (whatever keys the object has, none included), or the input with
\* exactly one of raw_output / error set to a string and nothing else touched
C2_OneReturnShape ==
    Returned =>
        LET last == hist[Len(hist)]
            p == json_loads(last.body)
        IN  IF last.kind = "text" /\ p.ok /\ p.type = "dict"
               THEN /\ DOMAIN lastOut = (DOMAIN lastEntry) \cup (DOMAIN p.dict)
                    /\ \A k \in DOMAIN p.dict : lastOut[k] = p.dict[k]
                    /\ \A k \in (DOMAIN lastEntry) \ (DOMAIN p.dict) :
                          lastOut[k] = lastEntry[k]
               ELSE \E f \in {"raw_output", "error"} :
                       /\ IsPlus(lastOut, lastEntry, f, lastOut[f])
                       /\ lastOut[f][1] = "str"

C2_Witness ==
    /\ Returned
    /\ hist[Len(hist)].kind = "text"
    /\ ~json_loads(hist[Len(hist)].body).ok
    /\ "raw_output" \in DOMAIN lastOut
    /\ "error" \notin DOMAIN lastOut

\* C3 as stated: a failure whose message contains "401" ends the record with
\* the Unauthorized error, whatever else the message contains
C3_Any401Unauthorized ==
    \A j \in 1..Len(hist) :
        (hist[j].kind = "fail" /\ Has401(hist[j].body)) =>
            /\ j = Len(hist)
            /\ Returned
            /\ IsPlus(lastOut, lastEntry, "error",
                      <<"str", "Unauthorized. Check your API key.">>)

\* C3 amended: a failure whose message contains "401" and does not contain
\* "429" ends the record with the Unauthorized error and no further invocation
C3_401Without429Unauthorized ==
    \A j \in 1..Len(hist) :
        (hist[j].kind = "fail" /\ Has401(hist[j].body) /\ ~Has429(hist[j].body)) =>
            /\ j = Len(hist)
            /\ Returned
            /\ IsPlus(lastOut, lastEntry, "error",
                      <<"str", "Unauthorized. Check your API key.">>)

C3_Witness ==
    /\ Returned
    /\ Len(hist) = 2
    /\ hist[2] = [kind |-> "fail", body |-> <<"4", "0", "1">>]
    /\ lastOut["error"] = <<"str", "Unauthorized. Check your API key.">>

\* C4: a returned text that is valid JSON, of whatever kind of value, ends the
\* record on that attempt with the parsed mapping merged over the record and
\* no error or raw_output field added by the loop
C4_ValidJsonIsSuccess ==
    \A j \in 1..Len(hist) :
        (hist[j].kind = "text" /\ json_loads(hist[j].body).ok) =>
            /\ j = Len(hist)
            /\ Returned
            /\ lastOut = Merge(lastEntry, json_loads(hist[j].body).dict)

\* C5: three failures with "429" in the message give "All attempts failed"
\* after exactly 3 invocations
C5_ThreeRateLimitsExhaust ==
    (/\ Len(hist) >= 3
     /\ \A j \in 1..3 : hist[j].kind = "fail" /\ Has429(hist[j].body)) =>
        /\ Len(hist) = 3
        /\ Returned
        /\ IsPlus(lastOut, lastEntry, "error", <<"str", "All attempts failed">>)

C5_Witness ==
    /\ Returned
    /\ Len(hist) = 3
    /\ \A j \in 1..3 : hist[j].kind = "fail" /\ Has429(hist[j].body)
    /\ lastOut["error"] = <<"str", "All attempts failed">>

\* s is t without its leading and trailing whitespace
IsStripOf(s, t) ==
    /\ s = <<>> \/ (s[1] # " " /\ s[Len(s)] # " ")
    /\ \E a \in 0..Len(t) :
          /\ a + Len(s) <= Len(t)
          /\ \A i \in 1..Len(t) :
                IF i > a /\ i <= a + Len(s) THEN t[i] = s[i - a] ELSE t[i] = " "

\* C6: a returned text that is not valid JSON gives the input record plus
\* raw_output = the stripped text, and no other field
C6_NonJsonIsRawOutput ==
    \A j \in 1..Len(hist) :
        (hist[j].kind = "text" /\ ~json_loads(hist[j].body).ok) =>
            /\ j = Len(hist)
            /\ Returned
            /\ IsPlus(lastOut, lastEntry, "raw_output", lastOut["raw_output"])
            /\ lastOut["raw_output"][1] = "str"
            /\ IsStripOf(Tail(lastOut["raw_output"]), hist[j].body)

C6_Witness ==
    /\ Returned
    /\ hist[Len(hist)] = [kind |-> "text", body |-> <<" ", "~", " ", "~", " ">>]
    /\ lastOut["raw_output"] = <<"str", "~", " ", "~">>

\* what the service's outcomes can put into a record
ParsedDicts == {json_loads(t).dict : t \in {x \in Texts : json_loads(x).type = "dict"}}

RawOutputs == {Str(Strip(t)) : t \in Texts}

ErrorValues ==
    {UnauthorizedError, AllAttemptsFailed}
    \cup {ApiError(m) : m \in Messages}
    \cup {ApiError(NotAMapping(ty)) : ty \in {"list", "NoneType"}}

\* out is a record extract_entities can return for rec
IsResultOf(out, rec) ==
    \/ \E d \in ParsedDicts : out = Merge(rec, d)
    \/ \E r \in RawOutputs : out = WithField(rec, "raw_output", r)
    \/ \E e \in ErrorValues : out = WithField(rec, "error", e)

\* C7: the output has the length of the input and its i-th element is the
\* result of the i-th input record
C7_SameLengthAndOrder ==
    /\ Len(output_data) <= Len(input_data)
    /\ \A i \in 1..Len(output_data) : IsResultOf(output_data[i], input_data[i])
    /\ pc = "done" =>
          /\ hm_output.written
          /\ hm_output.data = output_data
          /\ Len(hm_output.data) = Len(input_data)

C7_Witness ==
    /\ pc = "done"
    /\ Len(hm_output.data) = 2
    /\ input_data[1] # input_data[2]
    /\ "id" \in DOMAIN hm_output.data[2]

\* C8: once the input is loaded the run reaches the end with one output entry
\* per record written, whatever the service does
C8_BatchCompletes ==
    (pc = "next") ~>
        (pc = "done" /\ hm_output.written /\ Len(hm_output.data) = Len(input_data))

\* a batch that went on after an Unauthorized record
C8_Witness ==
    /\ pc = "done"
    /\ Len(hm_output.data) = 2
    /\ "error" \in DOMAIN hm_output.data[1]
    /\ hm_output.data[1]["error"] = <<"str", "Unauthorized. Check your API key.">>
    /\ "Product Type" \in DOMAIN hm_output.data[2]

\* C9: without the credential in the environment the run stops at startup:
\* nothing loaded, no invocation, nothing written
C9_NoKeyStopsAtStartup ==
    ~env_has_key =>
        /\ pc \in {"start", "crashed"}
        /\ input_data = <<>>
        /\ hist = <<>>
        /\ ~hm_output.written

\* C10: a failure whose message contains neither "429" nor "401" ends the
\* record with error = "API error: " followed by the message
C10_OtherErrorReturnsDetail ==
    \A j \in 1..Len(hist) :
        (hist[j].kind = "fail" /\ ~Has429(hist[j].body) /\ ~Has401(hist[j].body)) =>
            /\ j = Len(hist)
            /\ Returned
            /\ IsPlus(lastOut, lastEntry, "error",
                      <<"str", "API error: ">> \o hist[j].body)

C10_Witness ==
    /\ Returned
    /\ hist[Len(hist)] = [kind |-> "fail", body |-> <<"4", "0", "2", "9">>]
    /\ lastOut["error"] = <<"str", "API error: ", "4", "0", "2", "9">>

\* the 13 attribute keys in the order the prompt lists them
AttributeKeys ==
    << "- Product Type", "- Support/Wiring", "- Closures", "- Neckline design",
       "- Waist Style", "- Design Features", "- Intended Use / Function",
       "- Length", "- Washing Instructions", "- Drying Method",
       "- Bleach Instructions", "- Dry Cleaning", "- Ironing Instructions" >>

HasSegment(p, seg) ==
    \E i \in 1..(Len(p) - Len(seg) + 1) :
        \A n \in 1..Len(seg) : p[i + n - 1] = seg[n]

\* the lines xs occur in p, each once, in the order of xs
InOrder(p, xs) ==
    /\ \A n \in 1..Len(xs) : Cardinality({i \in 1..Len(p) : p[i] = xs[n]}) = 1
    /\ \A n \in 1..(Len(xs) - 1) :
          \E i, j \in 1..Len(p) : i < j /\ p[i] = xs[n] /\ p[j] = xs[n + 1]

\* the text of a field of the current record, empty when the field is missing
FieldText(key) ==
    IF key \in DOMAIN entry THEN Tail(entry[key]) ELSE <<>>

\* C11: the prompt built for a record holds the description and the care
\* instructions as they are between their delimiters (a missing field as the
\* empty text), the 13 attribute keys in their order, and the instruction to
\* return valid JSON only
C11_PromptHasTextsKeysInstruction ==
    pc = "attempt" =>
        /\ HasSegment(prompt,
              <<"Product Description:", "\"\"\"">> \o FieldText("description")
              \o <<"\"\"\"", "Care Instructions:", "\"\"\"">>
              \o FieldText("care_instructions") \o <<"\"\"\"">>)
        /\ Len(AttributeKeys) = 13
        /\ InOrder(prompt, AttributeKeys)
        /\ prompt[Len(prompt)] = "Only return valid JSON. No explanation."

\* a record without description whose care text holds the delimiter
C11_Witness ==
    /\ pc = "attempt"
    /\ "description" \notin DOMAIN entry
    /\ "care_instructions" \in DOMAIN entry
    /\ entry["care_instructions"] = <<"str", "\"\"\"", "a">>
    /\ Len(prompt) > 13

\* invocation j of the current record failed with "429" in its message
RateLimitedAt(j) == hist[j].kind = "fail" /\ Has429(hist[j].body)

\* C12: at most 3 invocations per record, each one after rate-limited ones
\* only (a returned text, a 401 and any other error are never followed by
\* another invocation); a record is left only by appending its one result,
\* so a batch of N records makes at most 3*N invocations
C12_AtMostThreeNoRetryAfterOutcome ==
    /\ [](/\ Len(hist) <= 3
          /\ Len(requests) = Len(hist)
          /\ Len(output_data) <= Len(input_data)
          /\ \A j \in 1..(Len(hist) - 1) : RateLimitedAt(j)
          /\ pc = "attempt" => \A j \in 1..Len(hist) : RateLimitedAt(j))
    /\ [][(pc = "attempt" /\ pc' # "attempt") =>
             (pc' = "next" /\ Len(output_data') = Len(output_data) + 1)]_vars
    /\ [][Len(requests') > Len(requests) =>
             (pc = "attempt" /\ Len(output_data) < Len(input_data))]_vars

\* a parse failure and another error, each on a first attempt that ended the record
C12_Witness ==
    /\ pc = "done"
    /\ Len(output_data) = 2
    /\ "raw_output" \in DOMAIN output_data[1]
    /\ Len(hist) = 1
    /\ hist[1] = [kind |-> "fail", body |-> <<"5", "0", "0">>]

\* the record a single outcome gives for rec
FirstAttemptResult(rec, o) ==
    IF o.kind = "text"
       THEN LET p == json_loads(o.body) IN
            IF ~p.ok THEN WithField(rec, "raw_output", Str(Strip(o.body)))
            ELSE IF p.type = "dict" THEN Merge(rec, p.dict)
            ELSE WithField(rec, "error",
                    <<"str", "API error: ", "'" \o p.type \o "' object is not a mapping">>)
    ELSE IF Has401(o.body)
       THEN WithField(rec, "error", <<"str", "Unauthorized. Check your API key.">>)
    ELSE WithField(rec, "error", <<"str", "API error: ">> \o o.body)

\* C13: when rate-limited attempts are followed by another outcome, the result
\* is the one that outcome gives on a first attempt
C13_RetryLeavesNoTrace ==
    (Returned /\ ~RateLimitedAt(Len(hist))) =>
        lastOut = FirstAttemptResult(lastEntry, hist[Len(hist)])

C13_Witness ==
    /\ Returned
    /\ Len(hist) = 3
    /\ RateLimitedAt(1)
    /\ RateLimitedAt(2)
    /\ hist[3] = [kind |-> "text", body |-> <<"{", "Product Type", ":", "Bra", "}">>]
    /\ "Product Type" \in DOMAIN lastOut
    /\ lastOut["Product Type"] = <<"str", "Bra">>

C15_SequentialFreshBudget ==
    /\ [](pc = "attempt" =>
            /\ Len(output_data) < Len(input_data)
            /\ attempt = Len(hist)
            /\ attempt < 3
            /\ \A j \in 1..Len(requests) :
                  HasSegment(requests[j].messages[1].content,
                             <<"\"\"\"">> \o FieldText("description") \o <<"\"\"\"">>))
    /\ [][(pc' = "attempt" /\ pc # "attempt") =>
             (attempt' = 0 /\ hist' = <<>> /\ requests' = <<>>)]_vars

\* a record that used its 3 attempts after a record that used its 3 attempts
C15_Witness ==
    /\ Returned
    /\ Len(output_data) = 2
    /\ \A i \in 1..2 :
          /\ "error" \in DOMAIN output_data[i]
          /\ output_data[i]["error"] = <<"str", "All attempts failed">>
    /\ Len(hist) = 3

\* C16: the input records are at every point what was loaded
C16_InputNeverMutated ==
    pc \in {"next", "attempt", "done"} => input_data = hm_input

C16_Witness ==
    /\ Returned
    /\ Len(hist) = 2
    /\ lastOut # lastEntry
    /\ lastOut["description"] # lastEntry["description"]
    /\ input_data = hm_input

\* C17: every invocation of a record sends the prompt built for the record as
\* one user message, with model open-mistral-7b and temperature 0; the prompt
\* does not change during the attempts
C17_SameRequestEveryAttempt ==
    /\ [](/\ Len(requests) = Len(hist)
          /\ \A j \in 1..Len(requests) :
                requests[j] = [model |-> "open-mistral-7b",
                               messages |-> <<[role |-> "user", content |-> prompt]>>,
                               temperature |-> 0]
          /\ pc = "attempt" =>
                HasSegment(prompt,
                    <<"Product Description:", "\"\"\"">> \o FieldText("description")
                    \o <<"\"\"\"", "Care Instructions:", "\"\"\"">>
                    \o FieldText("care_instructions") \o <<"\"\"\"">>))
    /\ [][pc = "attempt" => prompt' = prompt]_vars

C17_Witness ==
    /\ Returned
    /\ Len(requests) = 3
    /\ requests[1] = requests[3]
    /\ requests[3].messages[1].content = prompt

\* C18: a record sleeps once per rate-limited attempt, the last attempt
\* included: three rate-limited attempts give three sleeps
C18_SleepsCountRateLimited ==
    /\ Len(sleeps) = Cardinality({j \in 1..Len(hist) : RateLimitedAt(j)})
    /\ (Len(hist) = 3 /\ \A j \in 1..3 : RateLimitedAt(j)) => Len(sleeps) = 3

C18_Witness ==
    /\ Returned
    /\ Len(hist) = 3
    /\ \A j \in 1..3 : RateLimitedAt(j)
    /\ Len(sleeps) = 3
    /\ "error" \in DOMAIN lastOut
    /\ lastOut["error"] = <<"str", "All attempts failed">>

\* C19: one diagnostic line, with the 1-based attempt number, for every
\* invocation that failed, and none for an invocation that returned text
C19_OneLinePerFailedInvocation ==
    \A j \in 1..Len(hist) :
        LET lines == {i \in 1..Len(log) : log[i][1] = j} IN
        IF hist[j].kind = "fail"
           THEN /\ Cardinality(lines) = 1
                /\ \A i \in lines : log[i][2] = hist[j].body
           ELSE lines = {}

====
